---- MODULE Spec2Model ----
(***************************************************************************)
(* Order assistant: the order store (endpoints.py), the assistant with its *)
(* tools, turn and approval operations (order_assistant.py) and the        *)
(* Streamlit front-end's confirmation button and chat input (main.py).     *)
(*                                                                         *)
(* Time is counted in ticks, TicksPerDay ticks to a calendar day, so that  *)
(* a datetime (ticks) and its calendar date (ticks \div TicksPerDay) are   *)
(* different things, as datetime and datetime.date() are in the source.    *)
(***************************************************************************)
EXTENDS Integers, Sequences, FiniteSets, TLC

VARIABLES
    orders,              \* endpoints.py: orders (order id -> record)
    last_order_num,      \* endpoints.py: last_order_num
    now,                 \* the wall clock, datetime.datetime.now(), in ticks
    pending,             \* OrderAssistant._pending_confirmation_details
    last_action_result,  \* OrderAssistant._last_action_result
    ui_pending,          \* main.py: st.session_state.pending_confirmation_details
    pc,                  \* "idle", or "agent" while process_user_query awaits the agent
    injected,            \* the system note in messages_to_agent as the agent run starts
    lastCheck,           \* what the last _tool_cancel_order_check of the latest turn returned
    response,            \* response_data['confirmation_request'] of the last turn
    approval,            \* what the most recent execute_confirmed_action did
    inflight,            \* order ids whose _tool_cancel_order_check awaits GET /track
    trackFailed,         \* a _tool_track_order call of the latest turn failed in transport
    wire,                \* the last request a client sent to the store and its reply
    adding               \* POST /add requests the store's threads are handling

vars == <<orders, last_order_num, now, pending, last_action_result, ui_pending,
          pc, injected, lastCheck, response, approval, inflight, trackFailed, wire,
          adding>>

storeVars == <<orders, last_order_num>>

-----------------------------------------------------------------------------
(* Bounds of the model *)

TicksPerDay == 2
StartDay == 20
MaxTicks == 1
MaxAdds == 1
MaxRepeats == 2
MaxConcurrentAdds == 2

-----------------------------------------------------------------------------
(* Python's None, and the 10-day policy *)

None == [kind |-> "None"]

PolicyDays == 10

Days(n) == n * TicksPerDay

\* datetime.date(): the calendar day of a datetime
DateOf(t) == t \div TicksPerDay

\* datetime.isoformat(): the text "<date>T<time>" sent over the wire
IsoFormat(t) == [kind |-> "iso", date |-> t \div TicksPerDay, time |-> t % TicksPerDay]

NotADate == [kind |-> "text", text |-> "not-a-date"]
EmptyStr == [kind |-> "text", text |-> ""]

\* bool(placed_date_str): None and the empty string are falsy
Truthy(s) == s # None /\ s # EmptyStr

\* datetime.fromisoformat(): a datetime, or ValueError
ParsesAsIso(s) == s.kind = "iso" /\ s.time \in 0..(TicksPerDay - 1)
FromIsoFormat(s) == s.date * TicksPerDay + s.time

\* str.lower() on the status texts that occur
Lower(s) ==
    CASE s = "Cancelled" -> "cancelled"
      [] s = "CANCELLED" -> "cancelled"
      [] s = "cancelled" -> "cancelled"
      [] s = "Processing" -> "processing"
      [] s = "Shipped" -> "shipped"
      [] s = "Delivered" -> "delivered"
      [] s = "On Hold" -> "on hold"
      [] OTHER -> "unknown status"

\* dict.get(key, default)
Get(d, key, default) == IF key \in DOMAIN d THEN d[key] ELSE default

-----------------------------------------------------------------------------
(* endpoints.py: the in-memory order store *)

InitialOrders(t0) ==
    [id \in {"ORD123", "ORD456", "ORD789", "ORD910", "ORD911", "ORD912"} |->
        CASE id = "ORD123" ->
               [id |-> id, item |-> "Running Shoes", status |-> "Shipped",
                placed_date |-> t0 - Days(5),
                comment |-> <<"Customer requested fast delivery.">>]
          [] id = "ORD456" ->
               [id |-> id, item |-> "Laptop Stand", status |-> "Processing",
                placed_date |-> t0 - Days(15),
                comment |-> <<"Awaiting stock.">>]
          [] id = "ORD789" ->
               [id |-> id, item |-> "Coffee Mug", status |-> "Delivered",
                placed_date |-> t0 - Days(2),
                comment |-> <<"Gift wrapped.">>]
          [] id = "ORD910" ->
               [id |-> id, item |-> "Boundary Case 10d", status |-> "Processing",
                placed_date |-> t0 - Days(10),
                comment |-> <<"Test 10-day boundary.">>]
          [] id = "ORD911" ->
               [id |-> id, item |-> "Boundary Case 11d", status |-> "Processing",
                placed_date |-> t0 - Days(11),
                comment |-> <<"Test 11-day boundary (ineligible).">>]
          [] OTHER ->
               [id |-> id, item |-> "Standard Mug", status |-> "Cancelled",
                placed_date |-> t0 - Days(4),
                comment |-> <<"Order previously cancelled by support.">>]]

InitialLastOrderNum == 912

\* f"ORD{last_order_num}"
FormatOrderId(n) ==
    CASE n = 913 -> "ORD913"
      [] n = 914 -> "ORD914"
      [] n = 915 -> "ORD915"
      [] OTHER -> "ORD916"

\* GET /track/<order_id>: the reply; the store is not changed
TrackOrderEndpoint(os, order_id) ==
    IF order_id \in DOMAIN os
    THEN [status_code |-> 200,
          json |-> [success |-> TRUE,
                    order_id |-> order_id,
                    status |-> os[order_id].status,
                    item |-> os[order_id].item,
                    placed_date |-> IsoFormat(os[order_id].placed_date),
                    comment |-> os[order_id].comment]]
    ELSE [status_code |-> 404,
          json |-> [success |-> FALSE, order_id |-> order_id,
                    error |-> "Order not found"]]

\* faulty variant: the policy is tested before the Cancelled status
CancelOrderEndpoint_PolicyFirst(os, order_id, clock) ==
    IF order_id \notin DOMAIN os
    THEN [status_code |-> 404,
          json |-> [success |-> FALSE, order_id |-> order_id,
                    error |-> "Order not found"],
          orders |-> os]
    ELSE LET order == os[order_id]
             cancellation_cutoff == clock - Days(PolicyDays)
         IN  IF "placed_date" \notin DOMAIN order
             THEN [status_code |-> 403,
                   json |-> [success |-> FALSE, order_id |-> order_id,
                             error |-> "Order cannot be cancelled (missing placement date)."],
                   orders |-> os]
             ELSE IF ~(order.placed_date > cancellation_cutoff)
             THEN [status_code |-> 403,
                   json |-> [success |-> FALSE, order_id |-> order_id,
                             error |-> "Order cannot be cancelled. Policy limit: 10 days."],
                   orders |-> os]
             ELSE IF Lower(order.status) = "cancelled"
             THEN [status_code |-> 409,
                   json |-> [success |-> TRUE, order_id |-> order_id,
                             message |-> "Order was already cancelled."],
                   orders |-> os]
             ELSE [status_code |-> 200,
                   json |-> [success |-> TRUE, order_id |-> order_id,
                             message |-> "Order cancelled successfully."],
                   orders |-> [os EXCEPT ![order_id] =
                                  [order EXCEPT !.status = "Cancelled",
                                                !.comment = Append(order.comment, "[User Cancelled]")]]]

\* faulty variant: a refused cancel of an already cancelled order still
\* appends to the order's comment
CancelOrderEndpoint_WritesOnRefusal(os, order_id, clock) ==
    IF order_id \notin DOMAIN os
    THEN [status_code |-> 404,
          json |-> [success |-> FALSE, order_id |-> order_id,
                    error |-> "Order not found"],
          orders |-> os]
    ELSE LET order == os[order_id]
             cancellation_cutoff == clock - Days(PolicyDays)
         IN  IF Lower(order.status) = "cancelled"
             THEN [status_code |-> 409,
                   json |-> [success |-> TRUE, order_id |-> order_id,
                             message |-> "Order was already cancelled."],
                   orders |-> [os EXCEPT ![order_id] =
                                  [order EXCEPT !.comment = Append(order.comment, "[User Cancelled]")]]]
             ELSE IF "placed_date" \notin DOMAIN order
             THEN [status_code |-> 403,
                   json |-> [success |-> FALSE, order_id |-> order_id,
                             error |-> "Order cannot be cancelled (missing placement date)."],
                   orders |-> os]
             ELSE IF order.placed_date > cancellation_cutoff
             THEN [status_code |-> 200,
                   json |-> [success |-> TRUE, order_id |-> order_id,
                             message |-> "Order cancelled successfully."],
                   orders |-> [os EXCEPT ![order_id] =
                                  [order EXCEPT !.status = "Cancelled",
                                                !.comment = Append(order.comment, "[User Cancelled]")]]]
             ELSE [status_code |-> 403,
                   json |-> [success |-> FALSE, order_id |-> order_id,
                             error |-> "Order cannot be cancelled. Policy limit: 10 days."],
                   orders |-> os]

\* faulty variant: the status is compared with 'cancelled' without lower(), so
\* a Cancelled order is not recognised
CancelOrderEndpoint_CaseSensitive(os, order_id, clock) ==
    IF order_id \notin DOMAIN os
    THEN [status_code |-> 404,
          json |-> [success |-> FALSE, order_id |-> order_id,
                    error |-> "Order not found"],
          orders |-> os]
    ELSE LET order == os[order_id]
             cancellation_cutoff == clock - Days(PolicyDays)
         IN  IF order.status = "cancelled"
             THEN [status_code |-> 409,
                   json |-> [success |-> TRUE, order_id |-> order_id,
                             message |-> "Order was already cancelled."],
                   orders |-> os]
             ELSE IF "placed_date" \notin DOMAIN order
             THEN [status_code |-> 403,
                   json |-> [success |-> FALSE, order_id |-> order_id,
                             error |-> "Order cannot be cancelled (missing placement date)."],
                   orders |-> os]
             ELSE IF order.placed_date > cancellation_cutoff
             THEN [status_code |-> 200,
                   json |-> [success |-> TRUE, order_id |-> order_id,
                             message |-> "Order cancelled successfully."],
                   orders |-> [os EXCEPT ![order_id] =
                                  [order EXCEPT !.status = "Cancelled",
                                                !.comment = Append(order.comment, "[User Cancelled]")]]]
             ELSE [status_code |-> 403,
                   json |-> [success |-> FALSE, order_id |-> order_id,
                             error |-> "Order cannot be cancelled. Policy limit: 10 days."],
                   orders |-> os]

\* POST /cancel/<order_id>: the reply and the store afterwards
CancelOrderEndpoint(os, order_id, clock) ==
    IF order_id \notin DOMAIN os
    THEN [status_code |-> 404,
          json |-> [success |-> FALSE, order_id |-> order_id,
                    error |-> "Order not found"],
          orders |-> os]
    ELSE LET order == os[order_id]
             cancellation_cutoff == clock - Days(PolicyDays)
         IN  IF Lower(order.status) = "cancelled"
             THEN [status_code |-> 409,
                   json |-> [success |-> TRUE, order_id |-> order_id,
                             message |-> "Order was already cancelled."],
                   orders |-> os]
             ELSE IF "placed_date" \notin DOMAIN order
             THEN [status_code |-> 403,
                   json |-> [success |-> FALSE, order_id |-> order_id,
                             error |-> "Order cannot be cancelled (missing placement date)."],
                   orders |-> os]
             ELSE IF order.placed_date > cancellation_cutoff
             THEN [status_code |-> 200,
                   json |-> [success |-> TRUE, order_id |-> order_id,
                             message |-> "Order cancelled successfully."],
                   orders |-> [os EXCEPT ![order_id] =
                                  [order EXCEPT !.status = "Cancelled",
                                                !.comment = Append(order.comment, "[User Cancelled]")]]]
             ELSE [status_code |-> 403,
                   json |-> [success |-> FALSE, order_id |-> order_id,
                             error |-> "Order cannot be cancelled. Policy limit: 10 days."],
                   orders |-> os]

\* faulty variant: the new order id is generated before item_name is tested,
\* so a rejected request uses up an id
AddOrderEndpoint_CountsRejected(os, num, item_name, clock) ==
    IF item_name = ""
    THEN [status_code |-> 400,
          json |-> [success |-> FALSE, error |-> "Missing 'item_name' in request body"],
          orders |-> os, last_order_num |-> num + 1]
    ELSE LET new_id == FormatOrderId(num + 1)
             new_order == [id |-> new_id, item |-> item_name, status |-> "Processing",
                           placed_date |-> clock, comment |-> <<"Order placed.">>]
         IN  [status_code |-> 201,
              json |-> [success |-> TRUE, order_id |-> new_id],
              orders |-> [id \in DOMAIN os \cup {new_id} |->
                             IF id = new_id THEN new_order ELSE os[id]],
              last_order_num |-> num + 1]

\* faulty variant: last_order_num is not advanced, the next order gets the
\* same id
AddOrderEndpoint_ReusesId(os, num, item_name, clock) ==
    IF item_name = ""
    THEN [status_code |-> 400,
          json |-> [success |-> FALSE, error |-> "Missing 'item_name' in request body"],
          orders |-> os, last_order_num |-> num]
    ELSE LET new_id == FormatOrderId(num + 1)
             new_order == [id |-> new_id, item |-> item_name, status |-> "Processing",
                           placed_date |-> clock, comment |-> <<"Order placed.">>]
         IN  [status_code |-> 201,
              json |-> [success |-> TRUE, order_id |-> new_id],
              orders |-> [id \in DOMAIN os \cup {new_id} |->
                             IF id = new_id THEN new_order ELSE os[id]],
              last_order_num |-> num]

\* generate_new_order_id() and POST /add with a JSON body; a missing item_name
\* and an empty one are both falsy, written "" here
AddOrderEndpoint(os, num, item_name, clock) ==
    IF item_name = ""
    THEN [status_code |-> 400,
          json |-> [success |-> FALSE, error |-> "Missing 'item_name' in request body"],
          orders |-> os, last_order_num |-> num]
    ELSE LET new_id == FormatOrderId(num + 1)
             new_order == [id |-> new_id, item |-> item_name, status |-> "Processing",
                           placed_date |-> clock, comment |-> <<"Order placed.">>]
         IN  [status_code |-> 201,
              json |-> [success |-> TRUE, order_id |-> new_id],
              orders |-> [id \in DOMAIN os \cup {new_id} |->
                             IF id = new_id THEN new_order ELSE os[id]],
              last_order_num |-> num + 1]

\* the body of a POST /add request: JSON data, or something that is not JSON
NotJsonBody == [kind |-> "not_json"]
JsonBody(data) == [kind |-> "json", data |-> data]

\* add_order_endpoint, lines 157-168: request.is_json, then data.get('item_name')
AddOrderRequest(os, num, body, clock) ==
    IF body.kind # "json"
    THEN [status_code |-> 400,
          json |-> [success |-> FALSE, error |-> "Request must be JSON"],
          orders |-> os, last_order_num |-> num]
    ELSE AddOrderEndpoint(os, num, Get(body.data, "item_name", ""), clock)

\* GET /list
ListOrdersEndpoint(os) ==
    [status_code |-> 200, json |-> [success |-> TRUE, orders |-> os]]

-----------------------------------------------------------------------------
(* The HTTP exchange as the assistant's httpx client sees it *)

TransportError == [kind |-> "transport_error"]
HttpReply(status_code, json) == [kind |-> "response", status_code |-> status_code, json |-> json]
ServerError == HttpReply(500, [success |-> FALSE, error |-> "Internal Server Error"])

\* Response.raise_for_status(): raises HTTPStatusError unless the status is 2xx
RaisesForStatus(reply) == reply.status_code < 200 \/ reply.status_code >= 300

\* What self._http_client.get("/track/<id>") can give against endpoints.py:
\* the store's answer, a server error, or a timeout / connection error
TrackReplies(os, order_id) ==
    LET r == TrackOrderEndpoint(os, order_id)
    IN  {HttpReply(r.status_code, r.json), ServerError, TransportError}

-----------------------------------------------------------------------------
(* order_assistant.py: _tool_cancel_order_check *)

CommentNotFound == "not found."
CommentAlreadyCancelled == "has already been cancelled."
CommentWithinPolicy == "It is within the 10-day cancellation policy."
CommentOlderThanPolicy == "It is older than the 10-day policy limit."
CommentInvalidDate == "Could not verify cancellation policy. Invalid date format received from API."
CommentMissingDate == "Could not verify cancellation policy. Placement date missing from API response."
CommentApiError == "API error checking order status. Cannot determine eligibility."
CommentUnexpected == "An unexpected error occurred checking order. Cannot determine eligibility."

\* faulty variant: the item name not read from the reply
OrderDetails_DefaultItem(order_id, track_data) ==
    [order_id |-> order_id,
     item_name |-> "Unknown Item",
     current_status |-> Get(track_data, "status", "Unknown Status"),
     placed_date_str |-> Get(track_data, "placed_date", None)]

\* lines 112-122: order_details built from the track reply
OrderDetails(order_id, track_data) ==
    [order_id |-> order_id,
     item_name |-> Get(track_data, "item", "Unknown Item"),
     current_status |-> Get(track_data, "status", "Unknown Status"),
     placed_date_str |-> Get(track_data, "placed_date", None)]

\* faulty variant: the status compared without lower()
IsCancelledStatus_CaseSensitive(current_status) == current_status = "Cancelled"

\* faulty variant: a delivered order is refused like a cancelled one
IsCancelledStatus_OrDelivered(current_status) ==
    Lower(current_status) \in {"cancelled", "delivered"}

\* line 126
IsCancelledStatus(current_status) == Lower(current_status) = "cancelled"

\* faulty variant: the boundary day excluded (> for >=)
WithinPolicy_Strict(placed_date_dt, clock) ==
    DateOf(placed_date_dt) > DateOf(clock - Days(PolicyDays))

\* faulty variant: the check allows nine days only
WithinPolicy_NineDays(placed_date_dt, clock) ==
    DateOf(placed_date_dt) >= DateOf(clock - Days(PolicyDays - 1))

\* lines 137-139: placed_date_dt.date() >= (now - 10 days).date()
WithinPolicy(placed_date_dt, clock) ==
    DateOf(placed_date_dt) >= DateOf(clock - Days(PolicyDays))

\* faulty variant: a date that cannot be read is reported as too old
PolicyCheck_UnreadableAsTooOld(order_details, clock) ==
    IF IsCancelledStatus(order_details.current_status)
    THEN [eligible |-> FALSE, comment |-> CommentAlreadyCancelled]
    ELSE IF Truthy(order_details.placed_date_str)
            /\ ParsesAsIso(order_details.placed_date_str)
            /\ WithinPolicy(FromIsoFormat(order_details.placed_date_str), clock)
    THEN [eligible |-> TRUE, comment |-> CommentWithinPolicy]
    ELSE [eligible |-> FALSE, comment |-> CommentOlderThanPolicy]

\* faulty variant: the decision looks at the session, an action already pending
\* makes the order eligible
PolicyCheck_SeesPending(order_details, clock) ==
    IF IsCancelledStatus(order_details.current_status)
    THEN [eligible |-> FALSE, comment |-> CommentAlreadyCancelled]
    ELSE IF pending # None
    THEN [eligible |-> TRUE, comment |-> CommentWithinPolicy]
    ELSE IF Truthy(order_details.placed_date_str)
    THEN IF ParsesAsIso(order_details.placed_date_str)
         THEN IF WithinPolicy(FromIsoFormat(order_details.placed_date_str), clock)
              THEN [eligible |-> TRUE, comment |-> CommentWithinPolicy]
              ELSE [eligible |-> FALSE, comment |-> CommentOlderThanPolicy]
         ELSE [eligible |-> FALSE, comment |-> CommentInvalidDate]
    ELSE [eligible |-> FALSE, comment |-> CommentMissingDate]

\* lines 125-173: the policy decision on a parsed track reply
PolicyCheck(order_details, clock) ==
    IF IsCancelledStatus(order_details.current_status)
    THEN [eligible |-> FALSE, comment |-> CommentAlreadyCancelled]
    ELSE IF Truthy(order_details.placed_date_str)
    THEN IF ParsesAsIso(order_details.placed_date_str)
         THEN IF WithinPolicy(FromIsoFormat(order_details.placed_date_str), clock)
              THEN [eligible |-> TRUE, comment |-> CommentWithinPolicy]
              ELSE [eligible |-> FALSE, comment |-> CommentOlderThanPolicy]
         ELSE [eligible |-> FALSE, comment |-> CommentInvalidDate]
    ELSE [eligible |-> FALSE, comment |-> CommentMissingDate]

\* faulty variant: no special case for 404, which then raises like any other error status
CancelOrderCheckResult_No404Case(order_id, reply, clock) ==
    IF reply.kind = "transport_error"
    THEN [order_id |-> order_id, eligible_for_confirmation |-> FALSE,
          comment |-> CommentUnexpected, details |-> None, effect |-> "clear"]
    ELSE IF RaisesForStatus(reply)
    THEN [order_id |-> order_id, eligible_for_confirmation |-> FALSE,
          comment |-> CommentApiError, details |-> None, effect |-> "keep"]
    ELSE LET order_details == OrderDetails(order_id, reply.json)
             verdict == PolicyCheck(order_details, clock)
         IN  [order_id |-> order_id,
              eligible_for_confirmation |-> verdict.eligible,
              comment |-> verdict.comment,
              details |-> order_details,
              effect |-> IF verdict.eligible THEN "stage" ELSE "keep"]

\* lines 98-188 after the GET has answered: the returned response_payload and
\* what happens to self._pending_confirmation_details ("stage": set to the new
\* action, "clear": set to None, "keep": not assigned)
CancelOrderCheckResult(order_id, reply, clock) ==
    IF reply.kind = "transport_error"
    THEN [order_id |-> order_id, eligible_for_confirmation |-> FALSE,
          comment |-> CommentUnexpected, details |-> None, effect |-> "clear"]
    ELSE IF reply.status_code = 404
    THEN [order_id |-> order_id, eligible_for_confirmation |-> FALSE,
          comment |-> CommentNotFound, details |-> None, effect |-> "keep"]
    ELSE IF RaisesForStatus(reply)
    THEN [order_id |-> order_id, eligible_for_confirmation |-> FALSE,
          comment |-> CommentApiError, details |-> None, effect |-> "keep"]
    ELSE LET order_details == OrderDetails(order_id, reply.json)
             verdict == PolicyCheck(order_details, clock)
         IN  [order_id |-> order_id,
              eligible_for_confirmation |-> verdict.eligible,
              comment |-> verdict.comment,
              details |-> order_details,
              effect |-> IF verdict.eligible THEN "stage" ELSE "keep"]

\* line 149 / line 186 / no assignment
PendingAfterCheck(old, result) ==
    CASE result.effect = "stage" ->
           [action_type |-> "cancel_order", details |-> result.details]
      [] result.effect = "clear" -> None
      [] OTHER -> old

\* the record kept of a finished check: its payload, the HTTP status GET /track
\* answered with (0: no answer), and whether an action staged earlier in the
\* turn was still pending when it began
CheckRecord(result, reply, replaced) ==
    [order_id |-> result.order_id,
     eligible |-> result.eligible_for_confirmation,
     comment |-> result.comment,
     details |-> result.details,
     http |-> IF reply.kind = "transport_error" THEN 0 ELSE reply.status_code,
     fresh |-> TRUE,
     replaced |-> replaced]

-----------------------------------------------------------------------------
(* order_assistant.py: execute_confirmed_action *)

\* the f-string result messages: the fixed text, and what is formatted into it
\* (order id, item name, HTTP status code, the error detail; "" or 0 when absent)
Message(text, order_id, item_name, code, detail) ==
    [text |-> text, order_id |-> order_id, item_name |-> item_name, code |-> code,
     detail |-> detail]

\* e.response.text: the raw body, used when the JSON body has no 'error' key
ResponseText == "raw response body"

MsgUnknownAction == "Unknown action type"
MsgMissingOrderId == "Error: Missing order_id for cancellation."
MsgSuccess == "cancelled successfully."
MsgApiReportedFailure == "API reported failure"
MsgPolicy == "Cannot cancel order. Reason: policy"
MsgNotFound == "Failed to cancel order. Reason: Order not found by API."
MsgApiError == "Failed to cancel order. API Error"
MsgNoConnect == "Failed to cancel order: Could not connect to the order service."

\* What self._http_client.post("/cancel/<id>") can give against endpoints.py.
\* fault "none": the store handles the request and its answer arrives;
\* "refused": the request never reaches the store (connection error);
\* "timeout": the store handles the request, the answer does not arrive in 10 s;
\* "http500": the server fails before touching the orders;
\* "http204": the API the assistant is configured with (main.py line 35)
\* answers a successful cancel with 204 No Content instead of 200.
CancelFaults == {"none", "refused", "timeout", "http500"}

CancelExchange(os, order_id, clock, fault) ==
    LET r == CancelOrderEndpoint(os, order_id, clock)
    IN  CASE fault = "none" ->
               [reply |-> HttpReply(r.status_code, r.json), orders |-> r.orders]
          [] fault = "timeout" ->
               [reply |-> TransportError, orders |-> r.orders]
          [] fault = "http500" ->
               [reply |-> ServerError, orders |-> os]
          [] fault = "http204" ->
               [reply |-> IF r.status_code = 200
                          THEN HttpReply(204, [success |-> TRUE])
                          ELSE HttpReply(r.status_code, r.json),
                orders |-> r.orders]
          [] OTHER ->
               [reply |-> TransportError, orders |-> os]

\* faulty variant: no branch for 403, which then raises like any other error status
ClassifyCancelReply_No403Case(reply, order_id, item_name, action_type) ==
    IF reply.kind = "transport_error"
    THEN Message(MsgNoConnect, order_id, "", 0, "")
    ELSE IF reply.status_code = 200
    THEN IF Get(reply.json, "success", FALSE)
         THEN Message(MsgSuccess, order_id, item_name, 0, "")
         ELSE Message(MsgApiReportedFailure, order_id, "", 0,
                      Get(reply.json, "error", "Unknown reason"))
    ELSE IF reply.status_code = 404
    THEN Message(MsgNotFound, order_id, "", 0, "")
    ELSE IF RaisesForStatus(reply)
    THEN Message(MsgApiError, order_id, "", reply.status_code,
                 Get(reply.json, "error", ResponseText))
    ELSE Message(MsgUnknownAction, action_type, "", 0, "")

\* lines 277-307: the result message for the reply of POST /cancel
ClassifyCancelReply(reply, order_id, item_name, action_type) ==
    IF reply.kind = "transport_error"
    THEN Message(MsgNoConnect, order_id, "", 0, "")
    ELSE IF reply.status_code = 200
    THEN IF Get(reply.json, "success", FALSE)
         THEN Message(MsgSuccess, order_id, item_name, 0, "")
         ELSE Message(MsgApiReportedFailure, order_id, "", 0,
                      Get(reply.json, "error", "Unknown reason"))
    ELSE IF reply.status_code = 403
    THEN Message(MsgPolicy, order_id, item_name, 0,
                 Get(reply.json, "error", "Policy restriction"))
    ELSE IF reply.status_code = 404
    THEN Message(MsgNotFound, order_id, "", 0, "")
    ELSE IF RaisesForStatus(reply)
    THEN Message(MsgApiError, order_id, "", reply.status_code,
                 Get(reply.json, "error", ResponseText))
    ELSE Message(MsgUnknownAction, action_type, "", 0, "")

\* details.get('order_id'): None and '' are both falsy, written "" here
OrderIdOf(details) == Get(details, "order_id", "")

\* faulty variant: the policy is evaluated again locally, on a fresh GET /track,
\* and the POST is sent only when the order is still within it
ExecuteConfirmedAction_RechecksPolicy(action_type, details, os, clock, fault) ==
    IF action_type = "cancel_order"
    THEN LET order_id == OrderIdOf(details)
             item_name == Get(details, "item_name", "Unknown Item")
         IN  IF order_id = ""
             THEN [result_message |-> Message(MsgMissingOrderId, "", "", 0, ""),
                   orders |-> os, posts |-> 0, gets |-> 0, reply |-> None]
             ELSE IF order_id \in DOMAIN os
                     /\ ~WithinPolicy(os[order_id].placed_date, clock)
             THEN [result_message |->
                       Message(MsgPolicy, order_id, item_name, 0, "Policy restriction"),
                   orders |-> os, posts |-> 0, gets |-> 1, reply |-> None]
             ELSE LET x == CancelExchange(os, order_id, clock, fault)
                  IN  [result_message |->
                           ClassifyCancelReply(x.reply, order_id, item_name, action_type),
                       orders |-> x.orders, posts |-> 1, gets |-> 1, reply |-> x.reply]
    ELSE [result_message |-> Message(MsgUnknownAction, action_type, "", 0, ""),
          orders |-> os, posts |-> 0, gets |-> 0, reply |-> None]

\* faulty variant: a POST that fails in transport is sent a second time
ExecuteConfirmedAction_Retries(action_type, details, os, clock, fault) ==
    IF action_type = "cancel_order"
    THEN LET order_id == OrderIdOf(details)
             item_name == Get(details, "item_name", "Unknown Item")
         IN  IF order_id = ""
             THEN [result_message |-> Message(MsgMissingOrderId, "", "", 0, ""),
                   orders |-> os, posts |-> 0, gets |-> 0, reply |-> None]
             ELSE LET x == CancelExchange(os, order_id, clock, fault)
                      failed == x.reply = TransportError
                      y == IF failed
                           THEN CancelExchange(x.orders, order_id, clock, fault)
                           ELSE x
                  IN  [result_message |->
                           ClassifyCancelReply(y.reply, order_id, item_name, action_type),
                       orders |-> y.orders, posts |-> IF failed THEN 2 ELSE 1,
                       gets |-> 0, reply |-> y.reply]
    ELSE [result_message |-> Message(MsgUnknownAction, action_type, "", 0, ""),
          orders |-> os, posts |-> 0, gets |-> 0, reply |-> None]

\* faulty variant: the POST is sent without looking at the action type or at
\* the order id
ExecuteConfirmedAction_PostsUnvalidated(action_type, details, os, clock, fault) ==
    LET order_id == OrderIdOf(details)
        item_name == Get(details, "item_name", "Unknown Item")
        x == CancelExchange(os, order_id, clock, fault)
    IN  [result_message |-> ClassifyCancelReply(x.reply, order_id, item_name, action_type),
         orders |-> x.orders, posts |-> 1, gets |-> 0, reply |-> x.reply]

\* lines 259-315: the returned result message, the store afterwards, the
\* numbers of POST /cancel and GET /track requests sent, and the reply received
\* to the POST (None: no request was sent)
ExecuteConfirmedAction(action_type, details, os, clock, fault) ==
    IF action_type = "cancel_order"
    THEN LET order_id == OrderIdOf(details)
             item_name == Get(details, "item_name", "Unknown Item")
         IN  IF order_id = ""
             THEN [result_message |-> Message(MsgMissingOrderId, "", "", 0, ""),
                   orders |-> os, posts |-> 0, gets |-> 0, reply |-> None]
             ELSE LET x == CancelExchange(os, order_id, clock, fault)
                  IN  [result_message |->
                           ClassifyCancelReply(x.reply, order_id, item_name, action_type),
                       orders |-> x.orders, posts |-> 1, gets |-> 0, reply |-> x.reply]
    ELSE [result_message |-> Message(MsgUnknownAction, action_type, "", 0, ""),
          orders |-> os, posts |-> 0, gets |-> 0, reply |-> None]

-----------------------------------------------------------------------------
(* The state after construction *)

\* endpoints.py line 14: now, read once when the store starts
ServerStart == orders["ORD912"].placed_date + Days(4)

\* no request has been sent to the store by a client other than the assistant
NoExchange == [op |-> "none"]

\* the POST /add requests that can be in the store at the same time, none of
\* them received yet
Requests == 1..MaxConcurrentAdds
NoRequest == [at |-> "none"]

NoCheck == [order_id |-> "", eligible |-> FALSE, comment |-> "", details |-> None,
            http |-> 0, fresh |-> FALSE, replaced |-> FALSE]

Init ==
    /\ now \in {Days(StartDay) + tod : tod \in 0..(TicksPerDay - 1)}
    /\ orders = InitialOrders(now)
    /\ last_order_num = InitialLastOrderNum
    /\ pending = None
    /\ last_action_result = None
    /\ ui_pending = None
    /\ pc = "idle"
    /\ injected = None
    /\ lastCheck = NoCheck
    /\ response = None
    /\ approval = None
    /\ inflight = {}
    /\ trackFailed = FALSE
    /\ wire = NoExchange
    /\ adding = [r \in Requests |-> NoRequest]

\* the order ids a user or the agent names: orders of the store (a recent one,
\* the two boundary records, the cancelled one) and an id the store does not hold
QueryIds == {"ORD123", "ORD910", "ORD911", "ORD912", "ORD000"}

-----------------------------------------------------------------------------
(* The clock: half a day or more passes between two operations *)

Tick ==
    /\ pc = "idle"
    /\ now - ServerStart < MaxTicks
    /\ now' = now + 1
    /\ UNCHANGED <<adding, inflight, trackFailed, wire, storeVars, pending, last_action_result, ui_pending, pc, injected,
                   lastCheck, response, approval>>

-----------------------------------------------------------------------------
(* main.py chat input and order_assistant.py process_user_query *)

\* faulty variant: line 237 missing, the pending state survives into the new turn
TurnStart_KeepsPending ==
    /\ pc = "idle"
    /\ injected' = last_action_result
    /\ last_action_result' = None
    /\ pc' = "agent"
    /\ response' = None
    /\ lastCheck' = NoCheck
    /\ approval' = None
    /\ trackFailed' = FALSE
    /\ UNCHANGED <<adding, inflight, wire, storeVars, now, ui_pending, pending>>

\* faulty variant: line 232 missing, the result stays queued after it is injected
TurnStart_KeepsResult ==
    /\ pc = "idle"
    /\ injected' = last_action_result
    /\ pending' = None
    /\ pc' = "agent"
    /\ response' = None
    /\ lastCheck' = NoCheck
    /\ approval' = None
    /\ trackFailed' = FALSE
    /\ UNCHANGED <<adding, inflight, wire, storeVars, now, ui_pending, last_action_result>>

\* main.py 112-128, process_user_query 225-241: up to the await of the agent
TurnStart ==
    /\ pc = "idle"
    /\ injected' = last_action_result
    /\ last_action_result' = None
    /\ pending' = None
    /\ pc' = "agent"
    /\ response' = None
    /\ lastCheck' = NoCheck
    /\ approval' = None
    /\ trackFailed' = FALSE
    /\ UNCHANGED <<adding, inflight, wire, storeVars, now, ui_pending>>

\* _tool_track_order, lines 190-203: one GET /track; whatever the reply, the
\* tool returns a text and no state of the assistant is touched (trackFailed
\* notes that a call of this turn failed in transport, lines 201-203)
ToolTrackOrder(order_id, reply) ==
    /\ pc = "agent"
    /\ injected' = None
    /\ trackFailed' = (trackFailed \/ reply = TransportError)
    /\ UNCHANGED <<adding, inflight, wire, storeVars, now, pending, last_action_result, ui_pending,
                   pc, lastCheck, response, approval>>

\* _tool_list_orders: one GET /list
ToolListOrders ==
    /\ pc = "agent"
    /\ injected' = None
    /\ UNCHANGED <<adding, inflight, trackFailed, wire, storeVars, now, pending, last_action_result, ui_pending,
                   pc, lastCheck, response, approval>>

\* _tool_add_order: one POST /add, which reaches the store or is lost
ToolAddOrder(name, reaches) ==
    /\ pc = "agent"
    /\ last_order_num - InitialLastOrderNum < MaxAdds
    /\ injected' = None
    /\ LET r == AddOrderEndpoint(orders, last_order_num, name, now)
       IN  /\ orders' = IF reaches THEN r.orders ELSE orders
           /\ last_order_num' = IF reaches THEN r.last_order_num ELSE last_order_num
    /\ UNCHANGED <<adding, inflight, trackFailed, wire, now, pending, last_action_result, ui_pending,
                   pc, lastCheck, response, approval>>

\* faulty variant: the check tool cancels the order itself when it finds it eligible
ToolCancelOrderCheck_Cancels(order_id, reply) ==
    /\ pc = "agent"
    /\ injected' = None
    /\ LET result == CancelOrderCheckResult(order_id, reply, now)
       IN  /\ pending' = PendingAfterCheck(None, result)
           /\ lastCheck' = CheckRecord(result, reply, pending # None)
           /\ orders' = IF result.eligible_for_confirmation
                         THEN CancelOrderEndpoint(orders, order_id, now).orders
                         ELSE orders
    /\ UNCHANGED <<adding, inflight, trackFailed, wire, last_order_num, now, last_action_result, ui_pending, pc,
                   response, approval>>

\* faulty variant: line 99 missing, the pending state is not cleared on entry
ToolCancelOrderCheck_NoClear(order_id, reply) ==
    /\ pc = "agent"
    /\ injected' = None
    /\ LET result == CancelOrderCheckResult(order_id, reply, now)
       IN  /\ pending' = PendingAfterCheck(pending, result)
           /\ lastCheck' = CheckRecord(result, reply, pending # None)
    /\ UNCHANGED <<adding, inflight, trackFailed, wire, storeVars, now, last_action_result, ui_pending, pc,
                   response, approval>>

\* faulty variant: the details of a confirmation on display are reused for
\* its order instead of the reply of a new GET /track
ToolCancelOrderCheck_Cached(order_id, reply) ==
    /\ pc = "agent"
    /\ injected' = None
    /\ LET cached == IF ui_pending = None THEN FALSE
                     ELSE ui_pending.details.order_id = order_id
           used == IF cached
                   THEN HttpReply(200, [status |-> ui_pending.details.current_status,
                                        item |-> ui_pending.details.item_name,
                                        placed_date |-> ui_pending.details.placed_date_str])
                   ELSE reply
           result == CancelOrderCheckResult(order_id, used, now)
       IN  /\ pending' = PendingAfterCheck(None, result)
           /\ lastCheck' = CheckRecord(result, used, pending # None)
    /\ UNCHANGED <<adding, inflight, trackFailed, wire, storeVars, now, last_action_result, ui_pending, pc,
                   response, approval>>

\* faulty variant: a check whose GET /track fails in transport leaves the
\* pending state as it found it
ToolCancelOrderCheck_KeepsOnFailure(order_id, reply) ==
    /\ pc = "agent"
    /\ injected' = None
    /\ LET result == CancelOrderCheckResult(order_id, reply, now)
       IN  /\ pending' = IF reply = TransportError THEN pending
                         ELSE PendingAfterCheck(None, result)
           /\ lastCheck' = CheckRecord(result, reply, pending # None)
    /\ UNCHANGED <<adding, inflight, trackFailed, wire, storeVars, now, last_action_result,
                   ui_pending, pc, response, approval>>

\* _tool_cancel_order_check, lines 98-188, run from start to end: the pending
\* state is cleared (line 99), GET /track answers, the tool decides
ToolCancelOrderCheck(order_id, reply) ==
    /\ pc = "agent"
    /\ injected' = None
    /\ LET result == CancelOrderCheckResult(order_id, reply, now)
       IN  /\ pending' = PendingAfterCheck(None, result)
           /\ lastCheck' = CheckRecord(result, reply, pending # None)
    /\ UNCHANGED <<adding, inflight, trackFailed, wire, storeVars, now, last_action_result, ui_pending, pc,
                   response, approval>>

\* process_user_query 247-257: the confirmation_request returned for the
\* internal pending state p
ConfirmationRequest(p) == p

\* process_user_query 243-257 (the internal pending state is cleared once
\* handed over) and main.py 129-140; the agent run returns once every tool
\* call it started has returned
TurnEnd ==
    /\ pc = "agent"
    /\ inflight = {}
    /\ LET confirmation_request == ConfirmationRequest(pending)
       IN  /\ response' = confirmation_request
           /\ pending' = None
           /\ ui_pending' = IF confirmation_request # None
                            THEN confirmation_request ELSE ui_pending
    /\ pc' = "idle"
    /\ injected' = None
    /\ UNCHANGED <<adding, inflight, trackFailed, wire, storeVars, now, last_action_result, lastCheck, approval>>

\* the agent run raises (the model client fails before any tool call or after
\* the tools have run): process_user_query raises, main.py 142-146
TurnFail ==
    /\ pc = "agent"
    /\ pc' = "idle"
    /\ injected' = None
    /\ UNCHANGED <<adding, inflight, trackFailed, wire, storeVars, now, pending, last_action_result, ui_pending,
                   lastCheck, response, approval>>

-----------------------------------------------------------------------------
(* Approvals *)

\* whether a pending action for this order id is held anywhere: in the
\* assistant or in the front-end's session state
HasPendingFor(order_id) ==
    \/ (IF pending = None THEN FALSE ELSE pending.details.order_id = order_id)
    \/ (IF ui_pending = None THEN FALSE ELSE ui_pending.details.order_id = order_id)

\* whether this call repeats the previous approval (same action type and order
\* id, no turn in between), and the POST /cancel requests sent by the run of
\* identical approvals so far
RepeatsApproval(action_type, order_id) ==
    IF approval = None THEN FALSE
    ELSE approval.action_type = action_type /\ approval.order_id = order_id

PostsSoFar(action_type, order_id) ==
    IF RepeatsApproval(action_type, order_id) THEN approval.posts_run ELSE 0

\* the HTTP status of a reply (0: no reply, the request failed in transport
\* or was not sent)
StatusOf(reply) == IF reply.kind = "response" THEN reply.status_code ELSE 0

\* the record kept of an approval: its arguments, who made it, whether a
\* pending action for its order was held when it was made, the requests it
\* sent, the status POST /cancel answered with and the result it returned
ApprovalRecord(action_type, details, by, r) ==
    LET order_id == OrderIdOf(details)
    IN  [action_type |-> action_type,
         order_id |-> order_id,
         by |-> by,
         matched |-> HasPendingFor(order_id),
         posts |-> r.posts,
         posts_run |-> PostsSoFar(action_type, order_id) + r.posts,
         gets |-> r.gets,
         http |-> StatusOf(r.reply),
         transport_failed |-> r.reply = TransportError,
         result |-> r.result_message]

\* order_assistant.py 259-315 as one call
Approve(action_type, details, by, fault) ==
    LET r == ExecuteConfirmedAction(action_type, details, orders, now, fault)
    IN  /\ PostsSoFar(action_type, OrderIdOf(details)) + r.posts <= MaxRepeats
        /\ (r.posts = 0 => fault = "none")
        /\ orders' = r.orders
        /\ last_action_result' = r.result_message
        /\ approval' = ApprovalRecord(action_type, details, by, r)

\* faulty variant: the button approves the cancellation of an order of its own
\* choosing instead of the one on display
ConfirmButton_OtherOrder(fault) ==
    /\ pc = "idle"
    /\ ui_pending # None
    /\ Approve("cancel_order", [order_id |-> "ORD789", item_name |-> "Coffee Mug"],
               "button", fault)
    /\ ui_pending' = None
    /\ UNCHANGED <<adding, inflight, trackFailed, wire, last_order_num, now, pending, pc, injected,
                   lastCheck, response>>

\* faulty variant: the confirmation stays on display when the approval did not
\* go through, so that it can be approved again
ConfirmButton_KeepsOnFailure(fault) ==
    /\ pc = "idle"
    /\ ui_pending # None
    /\ LET details == ui_pending.details
           action_type == ui_pending.action_type
       IN  IF "order_id" \notin DOMAIN details \/ "item_name" \notin DOMAIN details
           THEN UNCHANGED <<orders, last_action_result, approval>>
           ELSE Approve(action_type, details, "button", fault)
    /\ ui_pending' = IF fault = "none" THEN None ELSE ui_pending
    /\ UNCHANGED <<adding, inflight, trackFailed, wire, last_order_num, now, pending, pc, injected,
                   lastCheck, response>>

\* faulty variant: the button's approval runs while a turn is still running
ConfirmButton_DuringTurn(fault) ==
    /\ ui_pending # None
    /\ LET details == ui_pending.details
           action_type == ui_pending.action_type
       IN  IF "order_id" \notin DOMAIN details \/ "item_name" \notin DOMAIN details
           THEN UNCHANGED <<orders, last_action_result, approval>>
           ELSE Approve(action_type, details, "button", fault)
    /\ ui_pending' = None
    /\ UNCHANGED <<adding, inflight, trackFailed, wire, last_order_num, now, pending, pc, injected, lastCheck, response>>

\* main.py 64-108: the confirmation is displayed and its button is clicked
ConfirmButton(fault) ==
    /\ pc = "idle"
    /\ ui_pending # None
    /\ LET details == ui_pending.details
           action_type == ui_pending.action_type
       IN  IF "order_id" \notin DOMAIN details \/ "item_name" \notin DOMAIN details
           THEN UNCHANGED <<orders, last_action_result, approval>>
           ELSE Approve(action_type, details, "button", fault)
    /\ ui_pending' = None
    /\ UNCHANGED <<adding, inflight, trackFailed, wire, last_order_num, now, pending, pc, injected, lastCheck, response>>

\* main.py 87-108 when the call at line 89 raises before the coroutine has
\* run (asyncio.run refuses to start): the except clause of lines 100-103
\* reports it and line 107 clears the confirmation all the same
ConfirmButtonRaises ==
    /\ pc = "idle"
    /\ ui_pending # None
    /\ ui_pending' = None
    /\ UNCHANGED <<adding, inflight, trackFailed, wire, storeVars, now, pending, last_action_result,
                   pc, injected, lastCheck, response, approval>>

\* execute_confirmed_action called with arguments of the caller's choosing
\* (a replayed or hand-made approval)
CallArguments ==
    {<<"cancel_order", [order_id |-> "ORD123"]>>,
     <<"cancel_order", [order_id |-> "ORD000"]>>,
     <<"cancel_order", [item_name |-> "Running Shoes"]>>,
     <<"refund_order", [order_id |-> "ORD123"]>>}
CallFaults == {"none", "refused"}

ApproveCall(action_type, details, fault) ==
    /\ pc = "idle"
    /\ Approve(action_type, details, "call", fault)
    /\ UNCHANGED <<adding, inflight, trackFailed, wire, last_order_num, now, pending, ui_pending, pc, injected, lastCheck,
                   response>>

-----------------------------------------------------------------------------
(* The specification *)

Next ==
    \/ Tick
    \/ TurnStart
    \/ \E id \in QueryIds :
           ToolTrackOrder(id, LET r == TrackOrderEndpoint(orders, id)
                              IN  HttpReply(r.status_code, r.json))
    \/ ToolListOrders
    \/ \E name \in {"Deluxe Pizza", ""}, reaches \in BOOLEAN : ToolAddOrder(name, reaches)
    \/ \E id \in QueryIds : \E reply \in TrackReplies(orders, id) :
           ToolCancelOrderCheck(id, reply)
    \/ TurnEnd
    \/ TurnFail
    \/ \E fault \in CancelFaults : ConfirmButton(fault)
    \/ \E args \in CallArguments, fault \in CallFaults :
           ApproveCall(args[1], args[2], fault)

Spec == Init /\ [][Next]_vars

-----------------------------------------------------------------------------
(* The eligibility check against any implementation of GET /track: the      *)
(* assistant is given its API by configuration (main.py line 35), and the   *)
(* check must cope with whatever status and placed_date text it is sent.    *)

WireStatuses == {"Processing", "Shipped", "Delivered", "Cancelled", "CANCELLED", "On Hold"}

\* placed dates around the policy boundary, as sent by isoformat()
WirePlacedDates(clock) ==
    {IsoFormat(clock - k) :
        k \in {0, Days(PolicyDays), Days(PolicyDays) + 1, Days(PolicyDays + 1)}}
        \cup {None, EmptyStr, NotADate}

AnyTrackBodies(order_id, clock) ==
    {[success |-> TRUE, order_id |-> order_id, item |-> "Coffee Mug",
      status |-> st, placed_date |-> d] :
        st \in WireStatuses, d \in WirePlacedDates(clock)}
    \cup {[success |-> TRUE, order_id |-> order_id, item |-> "Coffee Mug", status |-> st] :
        st \in WireStatuses}
    \cup {[success |-> TRUE, order_id |-> order_id, placed_date |-> d] :
        d \in WirePlacedDates(clock)}

AnyTrackReplies(order_id, clock) ==
    {HttpReply(200, body) : body \in AnyTrackBodies(order_id, clock)}
        \cup {HttpReply(404, [success |-> FALSE, order_id |-> order_id,
                              error |-> "Order not found"]),
              ServerError, TransportError}

NextPolicy ==
    \/ TurnStart
    \/ \E reply \in AnyTrackReplies("ORD789", now) : ToolCancelOrderCheck("ORD789", reply)
    \/ TurnEnd

SpecPolicy == Init /\ [][NextPolicy]_vars

-----------------------------------------------------------------------------
(* A confirmation left on display while days pass: the check tool and the    *)
(* store read datetime.datetime.now() each time they run (order_assistant.py *)
(* line 137, endpoints.py line 118).                                         *)

MaxDaysAged == 6
MaxStoreAdds == 2

\* the clock advances by d ticks between two operations
Advance(d) ==
    /\ pc = "idle"
    /\ now + d - ServerStart <= Days(MaxDaysAged)
    /\ now' = now + d
    /\ UNCHANGED <<adding, inflight, trackFailed, wire, storeVars, pending, last_action_result, ui_pending, pc, injected,
                   lastCheck, response, approval>>

AgingIds == {"ORD123", "ORD910"}

NextAging ==
    \/ \E d \in {1, Days(1)} : Advance(d)
    \/ TurnStart
    \/ \E id \in AgingIds :
           ToolCancelOrderCheck(id, LET r == TrackOrderEndpoint(orders, id)
                                    IN  HttpReply(r.status_code, r.json))
    \/ TurnEnd
    \/ \E fault \in CancelFaults : ConfirmButton(fault)

SpecAging == Init /\ [][NextAging]_vars

-----------------------------------------------------------------------------
(* Turns whose GET /track requests may fail: both tools that read an order   *)
(* (order_assistant.py 102 and 193) get the store's answer, a server error   *)
(* or a timeout / connection error.                                          *)

FaultIds == {"ORD123", "ORD911", "ORD000"}

NextFaults ==
    \/ TurnStart
    \/ \E id \in FaultIds : \E reply \in TrackReplies(orders, id) : ToolTrackOrder(id, reply)
    \/ \E id \in FaultIds : \E reply \in TrackReplies(orders, id) :
           ToolCancelOrderCheck(id, reply)
    \/ TurnEnd
    \/ TurnFail

SpecFaults == Init /\ [][NextFaults]_vars

-----------------------------------------------------------------------------
(* Overlapping checks: _tool_cancel_order_check is a coroutine that gives up *)
(* control at its await of GET /track (line 102); when the agent layer runs  *)
(* the tool calls of one model reply together, a second check can start and  *)
(* finish between the two halves of the first.                               *)

OverlapIds == {"ORD123", "ORD911"}

\* lines 98-102: the pending state is cleared and the GET is sent
CheckBegin(order_id) ==
    /\ pc = "agent"
    /\ order_id \notin inflight
    /\ injected' = None
    /\ pending' = None
    /\ inflight' = inflight \cup {order_id}
    /\ UNCHANGED <<adding, storeVars, now, last_action_result, ui_pending, pc, lastCheck,
                   response, approval, trackFailed, wire>>

\* lines 103-188: the reply arrives and the tool decides; only an eligible
\* result (line 149) and an unexpected exception (line 186) assign the
\* pending state here
CheckEnd(order_id, reply) ==
    /\ pc = "agent"
    /\ order_id \in inflight
    /\ LET result == CancelOrderCheckResult(order_id, reply, now)
       IN  /\ pending' = PendingAfterCheck(pending, result)
           /\ lastCheck' = CheckRecord(result, reply, pending # None)
    /\ inflight' = inflight \ {order_id}
    /\ UNCHANGED <<adding, storeVars, now, last_action_result, ui_pending, pc, injected,
                   response, approval, trackFailed, wire>>

NextOverlap ==
    \/ TurnStart
    \/ \E id \in OverlapIds : CheckBegin(id)
    \/ \E id \in OverlapIds : \E reply \in TrackReplies(orders, id) : CheckEnd(id, reply)
    \/ TurnEnd

SpecOverlap == Init /\ [][NextOverlap]_vars

-----------------------------------------------------------------------------
(* The store on its own: any HTTP client sends it requests (endpoints.py     *)
(* 74-194), days pass between them, and the last request and its reply are   *)
(* kept in wire.                                                             *)

StoreIds == {"ORD123", "ORD911", "ORD912", "ORD913", "ORD000"}

AddBodies ==
    {NotJsonBody, JsonBody([comment |-> "Gift"]), JsonBody([item_name |-> ""]),
     JsonBody([item_name |-> "Deluxe Pizza"])}

\* GET /track/<order_id>
StoreTrack(order_id) ==
    /\ LET r == TrackOrderEndpoint(orders, order_id)
       IN  wire' = [op |-> "track", order_id |-> order_id,
                    status_code |-> r.status_code, json |-> r.json]
    /\ UNCHANGED <<adding, storeVars, now, pending, last_action_result, ui_pending, pc,
                   injected, lastCheck, response, approval, inflight, trackFailed>>

\* GET /list
StoreList ==
    /\ LET r == ListOrdersEndpoint(orders)
       IN  wire' = [op |-> "list", status_code |-> r.status_code, json |-> r.json]
    /\ UNCHANGED <<adding, storeVars, now, pending, last_action_result, ui_pending, pc,
                   injected, lastCheck, response, approval, inflight, trackFailed>>

\* POST /cancel/<order_id>
StoreCancel(order_id) ==
    /\ LET r == CancelOrderEndpoint(orders, order_id, now)
       IN  /\ orders' = r.orders
           /\ wire' = [op |-> "cancel", order_id |-> order_id,
                       status_code |-> r.status_code, json |-> r.json]
    /\ UNCHANGED <<adding, last_order_num, now, pending, last_action_result, ui_pending, pc,
                   injected, lastCheck, response, approval, inflight, trackFailed>>

\* POST /add
StoreAdd(body) ==
    /\ last_order_num - InitialLastOrderNum < MaxStoreAdds
    /\ LET r == AddOrderRequest(orders, last_order_num, body, now)
       IN  /\ orders' = r.orders
           /\ last_order_num' = r.last_order_num
           /\ wire' = [op |-> "add", body |-> body,
                       status_code |-> r.status_code, json |-> r.json]
    /\ UNCHANGED <<adding, now, pending, last_action_result, ui_pending, pc,
                   injected, lastCheck, response, approval, inflight, trackFailed>>

\* between two requests no time, four and a half days, or six days pass
NextStore ==
    \/ \E d \in {Days(4) + 1, Days(MaxDaysAged)} : Advance(d)
    \/ \E id \in StoreIds : StoreTrack(id)
    \/ StoreList
    \/ \E id \in StoreIds : StoreCancel(id)
    \/ \E body \in AddBodies : StoreAdd(body)

SpecStore == Init /\ [][NextStore]_vars

-----------------------------------------------------------------------------
(* Approvals at one clock instant: turns that check an order, the button of  *)
(* the front end with every outcome of POST /cancel and of the call itself,  *)
(* and direct calls of execute_confirmed_action.                             *)

ApprovalFaults == CancelFaults \cup {"http204"}

NextApprovals ==
    \/ TurnStart
    \/ \E id \in AgingIds :
           ToolCancelOrderCheck(id, LET r == TrackOrderEndpoint(orders, id)
                                    IN  HttpReply(r.status_code, r.json))
    \/ TurnEnd
    \/ \E fault \in ApprovalFaults : ConfirmButton(fault)
    \/ ConfirmButtonRaises
    \/ \E args \in CallArguments, fault \in CallFaults :
           ApproveCall(args[1], args[2], fault)

SpecApprovals == Init /\ [][NextApprovals]_vars

-----------------------------------------------------------------------------
(* POST /add handled by several threads: app.run (endpoints.py 197-198)      *)
(* starts the development server, which serves each request in a thread of   *)
(* its own, and add_order_endpoint and generate_new_order_id take no lock.   *)
(* A thread can be suspended between the increment of last_order_num, the    *)
(* read that builds the id, and the insertion into the map.                  *)

AddItems == {"Deluxe Pizza", "Desk Lamp"}

\* lines 154-168: the request arrives with a JSON body holding item_name
AddReceive(r, item_name) ==
    /\ adding[r] = NoRequest
    /\ adding' = [adding EXCEPT ![r] = [at |-> "received", item_name |-> item_name]]
    /\ UNCHANGED <<storeVars, now, pending, last_action_result, ui_pending, pc, injected,
                   lastCheck, response, approval, inflight, trackFailed, wire>>

\* line 69: last_order_num += 1
AddIncrement(r) ==
    /\ adding[r].at = "received"
    /\ last_order_num' = last_order_num + 1
    /\ adding' = [adding EXCEPT ![r].at = "incremented"]
    /\ UNCHANGED <<orders, now, pending, last_action_result, ui_pending, pc, injected,
                   lastCheck, response, approval, inflight, trackFailed, wire>>

\* line 70: return f"ORD{last_order_num}", the counter as it is now
AddReadId(r) ==
    /\ adding[r].at = "incremented"
    /\ adding' = [adding EXCEPT ![r] =
                     [at |-> "named", item_name |-> adding[r].item_name,
                      new_id |-> FormatOrderId(last_order_num)]]
    /\ UNCHANGED <<storeVars, now, pending, last_action_result, ui_pending, pc, injected,
                   lastCheck, response, approval, inflight, trackFailed, wire>>

\* lines 171-185: the record is built and stored under new_id, 201 is answered
AddInsert(r) ==
    /\ adding[r].at = "named"
    /\ LET new_id == adding[r].new_id
           new_order == [id |-> new_id, item |-> adding[r].item_name,
                         status |-> "Processing", placed_date |-> now,
                         comment |-> <<"Order placed.">>]
       IN  orders' = [id \in DOMAIN orders \cup {new_id} |->
                         IF id = new_id THEN new_order ELSE orders[id]]
    /\ adding' = [adding EXCEPT ![r].at = "answered"]
    /\ UNCHANGED <<last_order_num, now, pending, last_action_result, ui_pending, pc,
                   injected, lastCheck, response, approval, inflight, trackFailed, wire>>

NextAddRace ==
    \/ \E r \in Requests, item_name \in AddItems : AddReceive(r, item_name)
    \/ \E r \in Requests : AddIncrement(r)
    \/ \E r \in Requests : AddReadId(r)
    \/ \E r \in Requests : AddInsert(r)

SpecAddRace == Init /\ [][NextAddRace]_vars

-----------------------------------------------------------------------------
(* Claims *)

\* C1: the store's POST /cancel is issued only from execute_confirmed_action:
\* no step of a turn (its start, any tool call of the agent, its end or its
\* failure) changes any order record already in the store, so no order
\* becomes Cancelled during a turn.
C1_ConfirmationGate ==
    [][(pc = "agent" \/ pc' = "agent")
          => \A id \in DOMAIN orders : orders'[id] = orders[id]]_vars

\* a check found ORD123 eligible, the turn returned, and the confirm button
\* then cancelled the order
C1_Witness ==
    /\ pc = "idle"
    /\ lastCheck.fresh /\ lastCheck.eligible /\ lastCheck.order_id = "ORD123"
    /\ approval # None /\ approval.by = "button" /\ approval.posts = 1
    /\ orders["ORD123"].status = "Cancelled"

\* C2: for the action staged by the last turn, the approvals made with its
\* action type and order id send at most one POST /cancel in all (a second
\* approval sends none).
C2_ExactlyOnce ==
    (/\ approval # None
     /\ response # None
     /\ approval.action_type = response.action_type
     /\ approval.order_id = response.details.order_id)
        => approval.posts_run <= 1

\* C3: when the last eligibility check returned ineligible, an approval made
\* from the confirmation still displayed sends no POST /cancel.
C3_NoExecutionAfterIneligibleCheck ==
    (/\ approval # None
     /\ approval.by = "button"
     /\ lastCheck.fresh
     /\ ~lastCheck.eligible)
        => approval.posts = 0

\* C4: an approval made while no pending action for its order id is held
\* sends no POST /cancel.
C4_ApprovalValidation ==
    (approval # None /\ ~approval.matched) => approval.posts = 0

\* C5: a check of an order whose status is Cancelled in any letter case is
\* ineligible with the already-cancelled reason and stages nothing, whatever
\* its placed date is; the turn returns no confirmation request.
C5_CancelledNeverEligible ==
    (/\ lastCheck.fresh
     /\ lastCheck.details # None
     /\ Lower(lastCheck.details.current_status) = "cancelled")
        => /\ ~lastCheck.eligible
           /\ lastCheck.comment = CommentAlreadyCancelled
           /\ pending = None
           /\ response = None

\* a reply with status CANCELLED and a placed date of today has been checked
C5_Witness ==
    /\ pc = "agent"
    /\ lastCheck.fresh
    /\ lastCheck.details # None
    /\ lastCheck.details.current_status = "CANCELLED"
    /\ lastCheck.details.placed_date_str = IsoFormat(now)
    /\ ~lastCheck.eligible

\* the placed date of the order just checked, when it is a readable date
CheckedDateReadable ==
    /\ lastCheck.fresh
    /\ lastCheck.details # None
    /\ Lower(lastCheck.details.current_status) # "cancelled"
    /\ Truthy(lastCheck.details.placed_date_str)
    /\ ParsesAsIso(lastCheck.details.placed_date_str)

StagedForCheckedOrder ==
    IF pending = None THEN FALSE
    ELSE pending.action_type = "cancel_order"
         /\ pending.details.order_id = lastCheck.order_id

\* C6: right after a check of a not-cancelled order with a readable placed
\* date, the order is eligible exactly when its calendar date is at most 10
\* calendar days before today's; it is staged exactly when eligible; placed
\* exactly 10 days ago it is eligible, exactly 11 days ago it is not and the
\* reason is the policy limit.
C6_TenDayBoundary ==
    (pc = "agent" /\ CheckedDateReadable)
        => LET placed == FromIsoFormat(lastCheck.details.placed_date_str)
           IN  /\ lastCheck.eligible <=> (DateOf(now) - DateOf(placed) <= PolicyDays)
               /\ lastCheck.eligible <=> StagedForCheckedOrder
               /\ (placed = now - Days(PolicyDays) => lastCheck.eligible)
               /\ (placed = now - Days(PolicyDays + 1)
                      => ~lastCheck.eligible /\ lastCheck.comment = CommentOlderThanPolicy)

\* an order placed exactly 10 days ago has been checked, found eligible and staged
C6_Witness ==
    /\ pc = "agent"
    /\ CheckedDateReadable
    /\ FromIsoFormat(lastCheck.details.placed_date_str) = now - Days(PolicyDays)
    /\ lastCheck.eligible
    /\ StagedForCheckedOrder

\* C7: a check whose GET /track answered 404 is ineligible with the not-found
\* reason, leaves no pending action (one staged earlier in the turn is gone)
\* and the turn returns no confirmation request.
C7_NotFound ==
    (lastCheck.fresh /\ lastCheck.http = 404)
        => /\ ~lastCheck.eligible
           /\ lastCheck.comment = CommentNotFound
           /\ pending = None
           /\ response = None

\* an unknown order was checked after an eligible one in the same turn, and
\* the turn has returned
C7_Witness ==
    /\ pc = "idle"
    /\ lastCheck.fresh
    /\ lastCheck.http = 404
    /\ lastCheck.order_id \notin DOMAIN orders
    /\ lastCheck.replaced
    /\ response = None

\* C8: a check of a not-cancelled order whose placed date is missing, empty or
\* not an ISO date is ineligible with a could-not-verify reason, which is not
\* the older-than-policy reason; the tool returns its payload, nothing is
\* staged and the turn returns no confirmation request.
C8_UnverifiableDate ==
    (/\ lastCheck.fresh
     /\ lastCheck.details # None
     /\ Lower(lastCheck.details.current_status) # "cancelled"
     /\ ~(Truthy(lastCheck.details.placed_date_str)
            /\ ParsesAsIso(lastCheck.details.placed_date_str)))
        => /\ ~lastCheck.eligible
           /\ lastCheck.comment \in {CommentInvalidDate, CommentMissingDate}
           /\ lastCheck.comment # CommentOlderThanPolicy
           /\ pending = None
           /\ response = None

\* a Processing order whose placed date is not an ISO date has been checked
C8_Witness ==
    /\ pc = "agent"
    /\ lastCheck.fresh
    /\ lastCheck.details # None
    /\ lastCheck.details.current_status = "Processing"
    /\ lastCheck.details.placed_date_str = NotADate
    /\ lastCheck.comment = CommentInvalidDate

\* the confirmation request r is for the order the last check found eligible,
\* with the item name the store holds for it
ForCheckedOrder(r) ==
    /\ lastCheck.fresh
    /\ lastCheck.eligible
    /\ r.action_type = "cancel_order"
    /\ r.details.order_id = lastCheck.order_id
    /\ lastCheck.order_id \in DOMAIN orders
    /\ r.details.item_name = orders[lastCheck.order_id].item

\* C9: a pending action exists only after an eligible check and is for that
\* check's order; a turn whose check was eligible for X returns a cancel_order
\* confirmation request for X with the store's item name; a turn whose check
\* was ineligible returns none.
C9_StagedOnlyWhenEligible ==
    /\ (pending # None => ForCheckedOrder(pending))
    /\ (response # None => ForCheckedOrder(response))
    /\ (pc = "idle" /\ lastCheck.fresh /\ lastCheck.eligible /\ pending = None
           => response # None)
    /\ (pc = "idle" /\ lastCheck.fresh /\ ~lastCheck.eligible => response = None)

\* the turn that checked ORD123 has returned the confirmation request for it
C9_Witness ==
    /\ pc = "idle"
    /\ lastCheck.fresh /\ lastCheck.eligible /\ lastCheck.order_id = "ORD123"
    /\ response # None
    /\ response.details.order_id = "ORD123"
    /\ response.details.item_name = "Running Shoes"

\* C10: however many checks a turn has run, the last one alone decides what
\* the turn surfaces: nothing if it was ineligible, its own order if it was
\* eligible; an action staged by an earlier check of the turn is never pending
\* or returned instead.
C10_LastCheckWins ==
    lastCheck.fresh
        => /\ (~lastCheck.eligible => pending = None /\ response = None)
           /\ (pending # None => pending.details.order_id = lastCheck.order_id)
           /\ (response # None => response.details.order_id = lastCheck.order_id)
           /\ (pc = "idle" /\ lastCheck.eligible /\ pending = None => response # None)

\* an eligible check was followed in the same turn by an ineligible one for
\* another order, and the turn returned no confirmation request
C10_Witness ==
    /\ pc = "idle"
    /\ lastCheck.fresh
    /\ lastCheck.replaced
    /\ ~lastCheck.eligible
    /\ lastCheck.http = 200
    /\ response = None

\* C11: a turn that ends without the cancellation check having run in it
\* returns no confirmation request, and so puts none on display, whatever an
\* earlier turn staged.
C11_NoCheckNoConfirmation ==
    [][(pc = "agent" /\ pc' = "idle" /\ ~lastCheck.fresh)
          => (response' = None /\ ui_pending' = ui_pending)]_vars

\* a turn without a check has ended after an earlier turn had staged an order
C11_Witness ==
    /\ pc = "idle"
    /\ ~lastCheck.fresh
    /\ ui_pending # None
    /\ response = None
    /\ approval = None

\* C12: once a later turn has ended having staged nothing, no confirmation is
\* offered any more, and an approval from the confirmation button sends no
\* POST /cancel.
C12_PendingDestroyedByNewQuery ==
    (pc = "idle" /\ response = None)
        => /\ ui_pending = None
           /\ (approval # None /\ approval.by = "button" => approval.posts = 0)

C14_StagingKeepsResultQueued ==
    [][(pc = "agent" /\ injected # None /\ pending' # None)
          => last_action_result' = injected]_vars

\* C15: after an approval made from the confirmation button no pending action
\* is left, in the assistant or on display, and the queued result is the
\* result the approval returned.
C15_IdleAfterApproval ==
    (approval # None /\ approval.by = "button")
        => /\ pending = None
           /\ ui_pending = None
           /\ last_action_result = approval.result

\* C16: an approval that sent its POST /cancel sent it once, and classified
\* the answer: 200 with success gives the success message, 403 the policy
\* message with the store's error text, 404 the not-found message, 500 the
\* API-error message with the status code and the error detail; the four
\* messages are different from each other.
C16_CancelReplyClassified ==
    /\ Cardinality({MsgSuccess, MsgPolicy, MsgNotFound, MsgApiError}) = 4
    /\ (approval # None /\ approval.posts >= 1)
          => /\ approval.posts = 1
             /\ (approval.http = 200 => approval.result.text = MsgSuccess)
             /\ (approval.http = 403
                    => /\ approval.result.text = MsgPolicy
                       /\ approval.result.detail =
                            CancelOrderEndpoint(orders, approval.order_id, now).json.error)
             /\ (approval.http = 404 => approval.result.text = MsgNotFound)
             /\ (approval.http = 500
                    => /\ approval.result.text = MsgApiError
                       /\ approval.result.code = 500
                       /\ approval.result.detail = ServerError.json.error)

\* the store has rejected the approved cancellation of ORD910 with 403
C16_Witness ==
    /\ approval # None
    /\ approval.by = "button"
    /\ approval.order_id = "ORD910"
    /\ approval.http = 403
    /\ approval.result.text = MsgPolicy
    /\ orders["ORD910"].status = "Processing"

\* C17: when POST /cancel is answered 409, the result is neither the
\* API-error (other failure) message nor the success message.
C17_AlreadyCancelledOutcome ==
    (approval # None /\ approval.http = 409)
        => approval.result.text \notin {MsgApiError, MsgSuccess}

\* C18 as stated: an approval whose POST /cancel failed in transport returns
\* the could-not-connect message after one POST, and the store is as it was.
C18_TransportFailureStoreUnchanged ==
    [][(IF approval' = None \/ approval' = approval THEN FALSE
        ELSE approval'.transport_failed)
          => /\ approval'.result.text = MsgNoConnect
             /\ approval'.posts = 1
             /\ orders' = orders]_vars

\* C18 amended: an approval whose POST /cancel failed in transport returns the
\* could-not-connect message after one POST; the store is as it was, or as
\* that one request left it when the request had reached the store before
\* the failure.
C18_TransportFailureTerminal ==
    [][(IF approval' = None \/ approval' = approval THEN FALSE
        ELSE approval'.transport_failed)
          => /\ approval'.result.text = MsgNoConnect
             /\ approval'.posts = 1
             /\ orders' \in {orders,
                             CancelOrderEndpoint(orders, approval'.order_id, now).orders}]_vars

\* the button's POST /cancel for ORD123 failed in transport and the order is
\* as it was in the store
C18_Witness ==
    /\ approval # None
    /\ approval.by = "button"
    /\ approval.order_id = "ORD123"
    /\ approval.transport_failed
    /\ approval.result.text = MsgNoConnect
    /\ orders["ORD123"].status = "Shipped"

\* C19: an approval for a cancel_order with an order id sends one POST
\* /cancel and no GET /track; when the order is in the store, not cancelled,
\* and was placed 10 days or more before the moment of the approval, the
\* store's answer is 403, the result is the policy message and the order's
\* status in the store stays what it was.
C19_NoLocalReevaluation ==
    [][IF approval' = None \/ approval' = approval THEN TRUE
       ELSE LET a == approval'
                id == a.order_id
            IN  (a.action_type = "cancel_order" /\ id # "")
                   => /\ a.posts = 1
                      /\ a.gets = 0
                      /\ (/\ id \in DOMAIN orders
                          /\ Lower(orders[id].status) # "cancelled"
                          /\ orders[id].placed_date <= now - Days(PolicyDays)
                          /\ a.http \notin {0, 500})
                            => /\ a.http = 403
                               /\ a.result.text = MsgPolicy
                               /\ orders'[id].status = orders[id].status]_vars

\* ORD123 was staged while within the window, days passed with the
\* confirmation on display, and the store rejected the approval with 403
C19_Witness ==
    /\ approval # None
    /\ approval.by = "button"
    /\ approval.order_id = "ORD123"
    /\ lastCheck.fresh /\ lastCheck.eligible /\ lastCheck.order_id = "ORD123"
    /\ now - ServerStart >= Days(5)
    /\ approval.http = 403
    /\ approval.result.text = MsgPolicy
    /\ orders["ORD123"].status = "Shipped"

\* C20: once a turn has ended, by returning or by raising, the assistant
\* holds no pending action.
C20_NoDanglingPending ==
    pc = "idle" => pending = None

\* the tool calls of the latest turn that read an order ended in a transport
\* failure: its last check did, or it ran no check and a track call did
CheckFailedInTransport == lastCheck.fresh /\ lastCheck.http = 0
TrackOnlyFailedInTransport == ~lastCheck.fresh /\ trackFailed

C22_FreshSnapshot ==
    [][IF ~(pc = "agent" /\ pc' = "agent" /\ lastCheck' # lastCheck
              /\ lastCheck'.fresh /\ lastCheck'.http = 200)
       THEN TRUE
       ELSE LET id == lastCheck'.order_id
            IN  /\ id \in DOMAIN orders
                /\ lastCheck'.details.current_status = orders[id].status
                /\ lastCheck'.details.placed_date_str = IsoFormat(orders[id].placed_date)
                /\ (orders[id].status = "Cancelled"
                       => /\ ~lastCheck'.eligible
                          /\ lastCheck'.comment = CommentAlreadyCancelled
                          /\ pending' = None)]_vars

\* ORD123 was found eligible (its confirmation is still on display with
\* status Shipped), was then cancelled in the store, and the next check of it
\* says already cancelled
C22_Witness ==
    /\ pc = "agent"
    /\ ui_pending # None
    /\ ui_pending.details.order_id = "ORD123"
    /\ ui_pending.details.current_status = "Shipped"
    /\ lastCheck.fresh
    /\ lastCheck.order_id = "ORD123"
    /\ lastCheck.comment = CommentAlreadyCancelled
    /\ pending = None

\* C23: right after a check of an order whose status is anything but
\* Cancelled (Processing, Shipped, Delivered, an unknown status, no status at
\* all) and whose placed date is within the 10-day window, the order is
\* eligible and staged for confirmation.
C23_StatusIrrelevant ==
    (/\ pc = "agent"
     /\ CheckedDateReadable
     /\ DateOf(now) - DateOf(FromIsoFormat(lastCheck.details.placed_date_str)) <= PolicyDays)
        => (lastCheck.eligible /\ StagedForCheckedOrder)

\* a delivered order placed today has been checked and staged
C23_Witness ==
    /\ pc = "agent"
    /\ CheckedDateReadable
    /\ lastCheck.details.current_status = "Delivered"
    /\ lastCheck.details.placed_date_str = IsoFormat(now)
    /\ lastCheck.eligible
    /\ StagedForCheckedOrder

\* C24: the step that ends a turn and puts a pending action in the turn's
\* response leaves that pending action stored in the assistant.
C24_SurfacingDoesNotClear ==
    [][(pc = "agent" /\ pc' = "idle" /\ response' # None)
          => pending' = response']_vars

ExpectedVerdict(status, placed, clock) ==
    IF Lower(status) = "cancelled"
    THEN <<FALSE, CommentAlreadyCancelled>>
    ELSE IF placed = None \/ placed = EmptyStr
    THEN <<FALSE, CommentMissingDate>>
    ELSE IF placed.kind # "iso"
    THEN <<FALSE, CommentInvalidDate>>
    ELSE IF DateOf(clock) - placed.date <= PolicyDays
    THEN <<TRUE, CommentWithinPolicy>>
    ELSE <<FALSE, CommentOlderThanPolicy>>

\* C30: the eligible flag and the reason of every check that read a snapshot
\* are the ones its status, its placed date and the clock determine, whatever
\* is pending or queued in the session, and the check leaves the store as it was.
C30_VerdictDeterministic ==
    [][IF ~(pc = "agent" /\ pc' = "agent" /\ lastCheck' # lastCheck
              /\ lastCheck'.fresh /\ lastCheck'.details # None)
       THEN TRUE
       ELSE /\ <<lastCheck'.eligible, lastCheck'.comment>> =
                   ExpectedVerdict(lastCheck'.details.current_status,
                                   lastCheck'.details.placed_date_str, now)
            /\ orders' = orders
            /\ last_order_num' = last_order_num]_vars

\* ORD911 has been checked and refused while an action staged by an earlier
\* check of the turn was pending
C30_Witness ==
    /\ pc = "agent"
    /\ lastCheck.fresh
    /\ lastCheck.replaced
    /\ lastCheck.order_id = "ORD911"
    /\ lastCheck.comment = CommentOlderThanPolicy
    /\ ui_pending # None

\* the step in which the store handles a POST /cancel request
CancelRequested == wire'.op = "cancel" /\ wire' # wire

\* C26: POST /cancel answers 404 when the store does not hold the order id,
\* else 409 when the order is Cancelled (whatever its age), else 403 when the
\* order has no placed date or was not placed within the last 10 days, else
\* 200 with success true; the target's status becomes Cancelled in that case
\* and in no other, and no other order's status changes.
C26_CancelPrecedence ==
    [][IF ~CancelRequested THEN TRUE
       ELSE LET id == wire'.order_id
                code == wire'.status_code
            IN  /\ code = (IF id \notin DOMAIN orders THEN 404
                           ELSE IF orders[id].status = "Cancelled" THEN 409
                           ELSE IF "placed_date" \notin DOMAIN orders[id] THEN 403
                           ELSE IF now - orders[id].placed_date >= Days(PolicyDays) THEN 403
                           ELSE 200)
                /\ (code = 200 => (wire'.json.success /\ orders'[id].status = "Cancelled"))
                /\ \A o \in DOMAIN orders :
                      (o # id \/ code # 200) => orders'[o].status = orders[o].status]_vars

\* a cancel of an order that is Cancelled and more than 10 days old has been
\* answered with 409
C26_Witness ==
    /\ wire.op = "cancel"
    /\ wire.status_code = 409
    /\ wire.order_id \in DOMAIN orders
    /\ now - orders[wire.order_id].placed_date > Days(PolicyDays)

\* C27: a record of the store changes only in the step of a POST /cancel for
\* it that answers 200; that step changes nothing of the record but its
\* status and comment, removes no order and leaves the id counter alone; a
\* POST /cancel answered otherwise, a GET /track and a GET /list change no
\* record and not the counter.
C27_StoreFrame ==
    [][/\ \A o \in DOMAIN orders :
             /\ o \in DOMAIN orders'
             /\ orders'[o] # orders[o]
                   => /\ wire'.op = "cancel"
                      /\ wire'.status_code = 200
                      /\ wire'.order_id = o
                      /\ orders'[o] = [orders[o] EXCEPT !.status = orders'[o].status,
                                                        !.comment = orders'[o].comment]
       /\ (wire' # wire /\ wire'.op \in {"cancel", "track", "list"})
             => (DOMAIN orders' = DOMAIN orders /\ last_order_num' = last_order_num)
       /\ (wire' # wire /\ wire'.op \in {"track", "list"}) => orders' = orders
       /\ (CancelRequested /\ wire'.status_code # 200) => orders' = orders]_vars

\* ORD123 has been cancelled with 200: its status and comment changed, the
\* other records are as they were at the start
C27_Witness ==
    /\ wire.op = "cancel"
    /\ wire.status_code = 200
    /\ wire.order_id = "ORD123"
    /\ orders["ORD123"].status = "Cancelled"
    /\ orders["ORD123"].comment = <<"Customer requested fast delivery.", "[User Cancelled]">>
    /\ orders["ORD123"].item = "Running Shoes"
    /\ orders["ORD911"].status = "Processing"
    /\ last_order_num = InitialLastOrderNum

\* the item_name of a POST /add body, "" when the body is not JSON or has none
ItemNameSent(body) ==
    IF body.kind = "json" /\ "item_name" \in DOMAIN body.data
    THEN body.data.item_name ELSE ""

\* C28: POST /add with a JSON body holding a non-empty item_name answers 201
\* with an order id the store did not hold, adds that one order with status
\* Processing, keeps every other record and advances the counter by one;
\* with any other body it answers 400 and leaves the order map and the
\* counter unchanged.
C28_AddOrder ==
    [][IF ~(wire'.op = "add" /\ wire' # wire) THEN TRUE
       ELSE IF ItemNameSent(wire'.body) # ""
       THEN LET new_id == wire'.json.order_id
            IN  /\ wire'.status_code = 201
                /\ new_id \notin DOMAIN orders
                /\ DOMAIN orders' = DOMAIN orders \cup {new_id}
                /\ orders'[new_id].status = "Processing"
                /\ orders'[new_id].item = ItemNameSent(wire'.body)
                /\ \A o \in DOMAIN orders : orders'[o] = orders[o]
                /\ last_order_num' = last_order_num + 1
       ELSE /\ wire'.status_code = 400
            /\ orders' = orders
            /\ last_order_num' = last_order_num]_vars

\* an order for a Deluxe Pizza has been added with 201 as ORD913, the seventh
\* order of the store
C28_Witness ==
    /\ wire.op = "add"
    /\ wire.status_code = 201
    /\ wire.json.order_id = "ORD913"
    /\ "ORD913" \in DOMAIN orders
    /\ orders["ORD913"].status = "Processing"
    /\ orders["ORD913"].item = "Deluxe Pizza"
    /\ Cardinality(DOMAIN orders) = 7
    /\ last_order_num = InitialLastOrderNum + 1

\* C29: once every check of a turn has completed and the one that completed
\* last was ineligible, no action is pending and, when the turn has ended, it
\* has returned no confirmation request, also when the checks' store
\* round-trips overlapped.
C29_LastIneligibleCheckClears ==
    (inflight = {} /\ lastCheck.fresh /\ ~lastCheck.eligible)
        => (pending = None /\ response = None)

\* the step is an approval made by the front end's button
ButtonApproves == approval' # approval /\ approval' # None /\ approval'.by = "button"

\* C31: the action type and order id of every approval made by the button are
\* those of the confirmation on display, and a confirmation gets on display
\* only as the confirmation request a turn returns, staged by that turn's
\* check of the same order, which found it eligible.
C31_ButtonApprovesWhatWasStaged ==
    [][/\ IF ButtonApproves
          THEN /\ ui_pending # None
               /\ approval'.action_type = ui_pending.action_type
               /\ approval'.action_type = "cancel_order"
               /\ approval'.order_id = ui_pending.details.order_id
          ELSE TRUE
       /\ IF ui_pending' # ui_pending /\ ui_pending' # None
          THEN /\ pc = "agent" /\ pc' = "idle"
               /\ response' = ui_pending'
               /\ lastCheck.fresh /\ lastCheck.eligible
               /\ lastCheck.order_id = ui_pending'.details.order_id
          ELSE TRUE]_vars

\* the button has sent one POST /cancel for ORD123, the order of the
\* confirmation request the last turn returned
C31_Witness ==
    /\ approval # None
    /\ approval.by = "button"
    /\ approval.posts = 1
    /\ approval.order_id = "ORD123"
    /\ response # None
    /\ response.details.order_id = "ORD123"
    /\ response.action_type = approval.action_type

\* C32: when the check of the latest turn found an order eligible and the
\* button's approval of it ran at the same clock instant, POST /cancel has not
\* answered 403.
C32_CheckAndStoreAgree ==
    IF approval = None THEN TRUE
    ELSE (/\ approval.by = "button"
          /\ lastCheck.fresh
          /\ lastCheck.eligible
          /\ lastCheck.order_id = approval.order_id)
            => approval.http # 403

\* C37: every step in which the button is handled leaves no confirmation on
\* display, whether the approval succeeded, failed or the call raised, and a
\* confirmation gets on display only at the end of a turn that returns it as
\* its confirmation request.
C37_OneApprovalPerConfirmation ==
    [][/\ (approval' # approval /\ approval' # None /\ approval'.by = "button")
             => ui_pending' = None
       /\ (pc = "idle" /\ pc' = "idle" /\ ui_pending' # ui_pending) => ui_pending' = None
       /\ (ui_pending' # ui_pending /\ ui_pending' # None)
             => (pc = "agent" /\ pc' = "idle" /\ response' = ui_pending')]_vars

\* a turn returned a confirmation request, the button was clicked, the call
\* raised before any approval ran, and nothing is on display
C37_Witness ==
    /\ pc = "idle"
    /\ response # None
    /\ ui_pending = None
    /\ approval = None
    /\ last_action_result = None

\* C38: an approval whose action type is not cancel_order or whose details
\* carry no order id sends no request, leaves the store unchanged, and returns
\* and queues 'Unknown action type' or 'Missing order_id' respectively.
C38_InvalidApprovalSendsNothing ==
    [][IF ~(approval' # approval /\ approval' # None)
       THEN TRUE
       ELSE (approval'.action_type # "cancel_order" \/ approval'.order_id = "")
               => /\ approval'.posts = 0
                  /\ approval'.gets = 0
                  /\ orders' = orders
                  /\ last_order_num' = last_order_num
                  /\ approval'.result.text =
                        (IF approval'.action_type # "cancel_order"
                         THEN MsgUnknownAction ELSE MsgMissingOrderId)
                  /\ last_action_result' = approval'.result]_vars

\* an approval of cancel_order without an order id has returned 'Missing order_id'
C38_Witness ==
    /\ approval # None
    /\ approval.action_type = "cancel_order"
    /\ approval.order_id = ""
    /\ approval.posts = 0
    /\ approval.result.text = MsgMissingOrderId

\* C39: the result of an approval of cancel_order with a non-empty order id is
\* never the default text 'Unknown action type', whatever status POST /cancel
\* answered with and whatever transport failure occurred.
C39_ClassificationTotal ==
    IF approval = None THEN TRUE
    ELSE (approval.action_type = "cancel_order" /\ approval.order_id # "")
            => approval.result.text # MsgUnknownAction

\* what the eligibility check decides for the store's order at this clock value
CheckFindsEligible(order_id) ==
    LET r == TrackOrderEndpoint(orders, order_id)
    IN  CancelOrderCheckResult(order_id, HttpReply(r.status_code, r.json), now)
            .eligible_for_confirmation

\* C33: whenever POST /cancel succeeds for an order, the eligibility check of
\* that order at the same clock value and on the same store finds it eligible.
C33_StoreAtLeastAsStrict ==
    [][(CancelRequested /\ wire'.status_code = 200) => CheckFindsEligible(wire'.order_id)]_vars

\* a cancel has succeeded for an order whose placed date is the check's cutoff
\* date, ten calendar days back
C33_Witness ==
    /\ wire.op = "cancel"
    /\ wire.status_code = 200
    /\ DateOf(now) - DateOf(orders[wire.order_id].placed_date) = PolicyDays
    /\ orders[wire.order_id].status = "Cancelled"

\* how many times ' [User Cancelled]' was appended to a comment
TimesCancelled(comment) ==
    Cardinality({i \in 1..Len(comment) : comment[i] = "[User Cancelled]"})

\* C34: a record whose status is Cancelled is never changed or removed; a
\* POST /cancel for it answers 409 and changes no record; a POST /cancel
\* answers 200 only for an order that was not Cancelled and is Cancelled
\* afterwards, so that no comment is extended more than once.
C34_CancelledAbsorbing ==
    [][/\ \A o \in DOMAIN orders :
             orders[o].status = "Cancelled"
                => (o \in DOMAIN orders' /\ orders'[o] = orders[o])
       /\ IF CancelRequested
          THEN LET id == wire'.order_id
               IN  /\ (id \in DOMAIN orders /\ orders[id].status = "Cancelled")
                         => (wire'.status_code = 409 /\ orders' = orders)
                   /\ wire'.status_code = 200
                         => (orders[id].status # "Cancelled"
                             /\ orders'[id].status = "Cancelled")
          ELSE TRUE
       /\ \A o \in DOMAIN orders' : TimesCancelled(orders'[o].comment) <= 1]_vars

\* ORD123 was cancelled with success and a later POST /cancel for it has been
\* answered 409, its comment extended once
C34_Witness ==
    /\ wire.op = "cancel"
    /\ wire.order_id = "ORD123"
    /\ wire.status_code = 409
    /\ TimesCancelled(orders["ORD123"].comment) = 1
    /\ orders["ORD123"].status = "Cancelled"

\* the numeric part of an order id
OrderNumber(order_id) ==
    CASE order_id = "ORD123" -> 123
      [] order_id = "ORD456" -> 456
      [] order_id = "ORD789" -> 789
      [] order_id = "ORD910" -> 910
      [] order_id = "ORD911" -> 911
      [] order_id = "ORD912" -> 912
      [] order_id = "ORD913" -> 913
      [] order_id = "ORD914" -> 914
      [] order_id = "ORD915" -> 915
      [] OTHER -> 916

KeysWellFormed(os, num) ==
    \A k \in DOMAIN os : os[k].id = k /\ OrderNumber(k) <= num

\* C35: no step of the store removes a key of the order map; a POST /add
\* answered 201 returns an id that was not a key before and leaves every
\* existing record as it was; before and after every step each key equals
\* the id field of its record and its numeric part is at most last_order_num.
C35_IdsNeverReused ==
    [][/\ \A k \in DOMAIN orders : k \in DOMAIN orders'
       /\ IF wire'.op = "add" /\ wire' # wire /\ wire'.status_code = 201
          THEN /\ wire'.json.order_id \notin DOMAIN orders
               /\ wire'.json.order_id \in DOMAIN orders'
               /\ \A k \in DOMAIN orders : orders'[k] = orders[k]
          ELSE TRUE
       /\ KeysWellFormed(orders, last_order_num)
       /\ KeysWellFormed(orders', last_order_num')]_vars

\* two orders have been added, as ORD913 and then ORD914
C35_Witness ==
    /\ wire.op = "add"
    /\ wire.status_code = 201
    /\ wire.json.order_id = "ORD914"
    /\ {"ORD913", "ORD914"} \subseteq DOMAIN orders
    /\ last_order_num = 914

\* C36: any two POST /add requests that have both been answered got different
\* order ids, and the orders of both are in the map.
C36_ConcurrentAddsDistinct ==
    \A r1, r2 \in Requests :
        (r1 # r2 /\ adding[r1].at = "answered" /\ adding[r2].at = "answered")
            => /\ adding[r1].new_id # adding[r2].new_id
               /\ {adding[r1].new_id, adding[r2].new_id} \subseteq DOMAIN orders

====
